---------------------------- MODULE Spec2Model ----------------------------
(***************************************************************************)
(* State-machine model of the web-search RAG plugin (src/miao.py,          *)
(* src/settings.py).                                                       *)
(*                                                                         *)
(*   SpecCollect : search_engine_google, one loop iteration per step       *)
(*   SpecIngest  : store_documents_in_collection, one document per step    *)
(*   SpecSeq     : rounds of search_with_google run one after another      *)
(*   SpecConc    : rounds of search_with_google interleaved on two threads *)
(*   SpecSynth   : the citation loop of search_with_google, one pair of    *)
(*                 answer chunks per step                                  *)
(*                                                                         *)
(* External collaborators (search provider, trafilatura, chunker, hooks,   *)
(* embedder, generator, nearest-neighbour ranking) are nondeterministic    *)
(* choices over the outcomes their interfaces allow.                       *)
(***************************************************************************)
EXTENDS Integers, Sequences, FiniteSets, TLC

(* ------------------------------ bounds -------------------------------- *)
\* distinct URLs the search provider may return
MaxUrl == 3
\* largest small max_num_results argument tried on search_engine_google
\* (the values around num_results are tried as well)
MaxTarget == 3
\* longest document list handed to store_documents_in_collection
MaxDocs == 4
\* rounds of search_with_google started in one behaviour
MaxRounds == 2
\* inside a round: distinct URLs, longest hit stream, largest
\* search_max_results setting, most chunks of one result's content, most
\* chunks of the answer per chunking pass
MaxRoundUrl == 2
MaxStream == 2
MaxSetting == 1
MaxRoundDocs == 1
MaxRoundChunks == 1
\* the citation loop on its own: distinct URLs among the points, most points
\* in the collection, largest k, most chunks of the answer per chunking pass
MaxSynthUrl == 2
MaxSynthPoints == 3
MaxNeighbours == 3
MaxAnswerChunks == 3

(* ------------------------- program constants -------------------------- *)
\* search(query, num_results=10, ...)
num_results == 10
\* trafilatura.extract(downloaded)[:2000]
ContentBudget == 2000
\* settings default, search_max_results: int = 3
search_max_results_default == 3

URLs == 1..MaxUrl
\* The title the provider reports for a URL: URLs 1 and 2 carry the same
\* title, every third URL another one.
TitleOf(url) == IF url % 3 = 0 THEN "B" ELSE "A"
\* max_num_results arguments tried
TargetCounts == (1..MaxTarget) \cup {num_results - 1, num_results, num_results + 1}
Threads == {"t1", "t2"}

Min(a, b) == IF a <= b THEN a ELSE b

(* ====================== ContentFetcher ================================ *)
\* What the two trafilatura calls do for one URL: fetch_url raises or
\* returns None or a document; extract raises, returns None, or returns a
\* text of the given length.
PageOutcomes ==
    {[kind |-> k] : k \in {"fetch_raises", "fetch_none", "extract_raises", "extract_none"}}
    \cup {[kind |-> "text", len |-> n] : n \in {1, ContentBudget + 1}}

NoneValue == [kind |-> "none"]
Raised == [kind |-> "raised"]

\* The body of the try block: extract(fetch_url(url))[:2000].  Slicing the
\* None that extract returns for a missing document or an empty extraction
\* raises TypeError.
TryBody(page) ==
    IF page.kind = "text"
    THEN [kind |-> "text", len |-> Min(page.len, ContentBudget)]
    ELSE Raised

\* get_page_content with the except clause left out: the error propagates.
get_page_content_no_except(page) == TryBody(page)

\* try: ... except Exception: return None
get_page_content(page) ==
    LET r == TryBody(page)
    IN IF r.kind = "raised" THEN NoneValue ELSE r

(* ====================== DocumentIngestor ============================== *)
\* What a document is once before_rabbithole_insert_memory has run on it:
\* its page_content is "", or it is a text the embedder embeds, or a text on
\* which the embedder call raises.
DocKinds == {"empty", "text", "embed_raises"}

\* The result a document list belongs to when the call is made on its own.
LoneInfo == [url |-> 1, title |-> TitleOf(1), content |-> 1, position |-> 0]

\* A point left in the collection by an earlier process.
StalePoint == [id |-> <<0, 0, 0>>, link |-> 1, title |-> TitleOf(1)]

\* memory.add_point(page_content, embedding, metadata): the stored point.
\* Identifiers are unique; the model draws them as (round, result, document).
add_point(rnd, info, d) ==
    [id |-> <<rnd, info.position, d>>, link |-> info.url, title |-> info.title]

\* the test for an empty document left out: every document is inserted
ShouldInsert_always(doc) == TRUE

\* if doc.page_content != ""
ShouldInsert(doc) == doc # "empty"

\* stored_points.append(stored_point)
CollectId(stored_points, id) == Append(stored_points, id)

\* State of a call that has just begun on a collection holding `points`.
StoreBegin(points) ==
    [points |-> points, stored_points |-> <<>>, exit |-> "running", missing |-> FALSE]

\* One iteration of the for loop (lines 111-155) on the d-th document.
\* exit: "running" | "return" (returns None) | "raise" (an error propagates).
StoreStep(st, doc, d, exists, rnd, info) ==
    IF ~ShouldInsert(doc) THEN st
    ELSE IF doc = "embed_raises" THEN [st EXCEPT !.exit = "raise"]
    ELSE IF ~exists THEN [st EXCEPT !.exit = "return", !.missing = TRUE]
    ELSE LET pt == add_point(rnd, info, d)
         IN [st EXCEPT !.points = @ \cup {pt},
                       !.stored_points = CollectId(@, pt.id)]

\* The loop from the d-th document on, stopping at an early return or raise.
RECURSIVE StoreLoop(_, _, _, _, _, _)
StoreLoop(st, docs, d, exists, rnd, info) ==
    IF d > Len(docs) \/ st.exit # "running" THEN st
    ELSE StoreLoop(StoreStep(st, docs[d], d, exists, rnd, info),
                   docs, d + 1, exists, rnd, info)

\* The whole call: the loop, then the after hook and the final return.
store_documents_in_collection(points, docs, exists, rnd, info) ==
    LET st == StoreLoop(StoreBegin(points), docs, 1, exists, rnd, info)
    IN IF st.exit = "running" THEN [st EXCEPT !.exit = "return"] ELSE st

(* ====================== SearchResultCollector ========================= *)
\* One raw hit of the search provider together with what fetching it does.
Hits == [url : URLs, page : PageOutcomes]

\* for semi_result in results: if semi_result.url == page_info.url
IsDuplicate(results, url) == \E i \in 1..Len(results) : results[i].url = url

\* position=len(results)+1
NextPosition(results) == Len(results) + 1

\* the duplicate check left out
KeepHit_no_dedup(results, url, content) == content.kind = "text"

\* A hit is appended when its content is present and its URL is new.
KeepHit(results, url, content) ==
    content.kind = "text" /\ ~IsDuplicate(results, url)

\* The loop body after the length test, for a hit whose fetch returned
\* `content` (lines 42-63).
LoopBody(results, hit, content) ==
    IF KeepHit(results, hit.url, content)
    THEN Append(results, [url |-> hit.url, title |-> TitleOf(hit.url),
                          content |-> content.len,
                          position |-> NextPosition(results)])
    ELSE results

\* if len(results) > max_num_results: break, one result too late
TargetReached_late(results, max_num_results) == Len(results) > max_num_results

\* if len(results) == max_num_results: break
TargetReached(results, max_num_results) == Len(results) = max_num_results

\* The whole loop of search_engine_google over a finite hit stream: the
\* results, or an error if get_page_content let one through.
RECURSIVE SearchLoop(_, _, _)
SearchLoop(stream, results, max_num_results) ==
    IF stream = <<>> \/ TargetReached(results, max_num_results)
    THEN [results |-> results, error |-> FALSE]
    ELSE LET content == get_page_content(Head(stream).page)
         IN IF content.kind = "raised"
            THEN [results |-> results, error |-> TRUE]
            ELSE SearchLoop(Tail(stream), LoopBody(results, Head(stream), content),
                            max_num_results)

search_engine_google(stream, max_num_results) ==
    SearchLoop(stream, <<>>, max_num_results)

(* ====================== ScratchCollectionManager ====================== *)
search_collection_name == "search"

\* hasattr(cat.memory.vectors, collection_name)
hasattr(vecs, name) == name \in DOMAIN vecs

\* create_collection: the new handle is registered under the name.  The
\* collection on the vector database may hold points of an earlier process.
create_collection(vecs, name, found) ==
    [n \in (DOMAIN vecs) \cup {name} |-> IF n = name THEN found ELSE vecs[n]]

\* memory.get_all_points()
get_all_points(points) == points

\* the deletion request is dropped
delete_points_none(points, point_ids) == points

\* memory.delete_points(point_ids)
delete_points(points, point_ids) == {p \in points : p.id \notin point_ids}

\* delete_points is never reached: the collection keeps its points
empty_collection_keep(points) == points

\* empty_collection: collect the id of every point, then delete those ids.
empty_collection(points) ==
    LET point_ids == {p.id : p \in get_all_points(points)}
    IN delete_points(points, point_ids)

(* ====================== AnswerSynthesizer ============================= *)
\* string_to_docs on the answer: n chunks of one pass, told apart by index.
Chunks(pass, n) == [i \in 1..n |-> [pass |-> pass, k |-> i]]

MissingChunk == [pass |-> "missing", k |-> 0]

\* the loop runs over the indices of the first list and indexes the second
Zip_by_first(s1, s2) ==
    [i \in 1..Len(s1) |-> <<s1[i], IF i <= Len(s2) THEN s2[i] ELSE MissingChunk>>]

\* zip(response_chunks, response_chunks_without_overlap)
Zip(s1, s2) == [i \in 1..Min(Len(s1), Len(s2)) |-> <<s1[i], s2[i]>>]

\* search_memory.recall_memories_from_embedding(embedding, k): up to k
\* distinct points of the collection, in the order the store ranks them.
recall_memories_from_embedding(points, k) ==
    LET n == Min(k, Cardinality(points))
    IN {m \in [1..n -> points] : \A i, j \in 1..n : i # j => m[i] # m[j]}

\* mem_doc.metadata["search"]
SearchMetadata(point) == [title |-> point.title, link |-> point.link]

\* the membership test left out: every neighbour is cited
IsNewCitation_always(chunk_citations, metadata) == TRUE

\* if not metadata["link"] in chunk_citations
IsNewCitation(chunk_citations, metadata) == metadata.link \notin chunk_citations

\* The loop over the neighbours of one answer chunk (lines 311-322).
RECURSIVE CitationLoop(_, _, _, _)
CitationLoop(mems, i, chunk_citations, chunk_citations_metadata) ==
    IF i > Len(mems) THEN chunk_citations_metadata
    ELSE LET metadata == SearchMetadata(mems[i])
         IN CitationLoop(mems, i + 1, chunk_citations \cup {metadata.link},
                         IF IsNewCitation(chunk_citations, metadata)
                         THEN Append(chunk_citations_metadata, metadata)
                         ELSE chunk_citations_metadata)

ChunkCitations(mems) == CitationLoop(mems, 1, {}, <<>>)

\* The trailing references block: every result, in result order.
References(results) ==
    [i \in 1..Len(results) |-> [title |-> results[i].title, link |-> results[i].url]]

VARIABLES
    se_pc,          \* "loop" | "returned" | "raised"
    se_max,         \* max_num_results
    se_requested,   \* raw hits requested from the provider
    se_results,     \* results
    se_consumed,    \* hits the for loop has drawn from the stream
    se_exhausted,   \* the stream ended (StopIteration)
    se_absent,      \* hits skipped because get_page_content returned None
    se_dups         \* hits skipped because their URL was already collected

seVars == <<se_pc, se_max, se_requested, se_results, se_consumed, se_exhausted,
            se_absent, se_dups>>

VARIABLES
    sd_exists,      \* collection_name is an attribute of stray.memory.vectors
    sd_n,           \* len(docs)
    sd_seen,        \* per document handled so far, what it was after the insert hook
    sd_before,      \* the points of the collection when the call began
    sd_st,          \* [points, stored_points, exit, missing] of the running call
    sd_hook,        \* what after_rabbithole_stored_documents was called with
    sd_ret          \* the value the call returned

sdVars == <<sd_exists, sd_n, sd_seen, sd_before, sd_st, sd_hook, sd_ret>>

VARIABLES
    vectors,         \* cat.memory.vectors: collection name -> its points
    rounds_started,  \* rounds of search_with_google begun so far
    pc,              \* per thread: where its call of search_with_google is
    rnd,             \* per thread: the number of its latest round
    frame,           \* per thread: the local variables of its call
    ingested         \* per thread: the points its round in progress has inserted

rdVars == <<vectors, rounds_started, pc, rnd, frame, ingested>>

vars == <<seVars, sdVars, rdVars>>
otherThanSe == <<sdVars, rdVars>>
otherThanSd == <<seVars, rdVars>>
otherThanRd == <<seVars, sdVars>>

\* No call of search_engine_google is in progress.
SeIdle ==
    /\ se_pc = "returned"
    /\ se_max = search_max_results_default
    /\ se_requested = num_results
    /\ se_results = <<>>
    /\ se_consumed = 0
    /\ se_exhausted = FALSE
    /\ se_absent = 0
    /\ se_dups = 0

\* search_engine_google(query, max_num_results) is entered.
SeInit ==
    /\ se_pc = "loop"
    /\ se_max \in TargetCounts
    /\ se_requested = num_results
    /\ se_results = <<>>
    /\ se_consumed = 0
    /\ se_exhausted = FALSE
    /\ se_absent = 0
    /\ se_dups = 0

\* The stream yields its next hit and the loop runs one iteration.
SeNextHit ==
    /\ se_pc = "loop"
    /\ se_consumed < se_requested
    /\ \E hit \in Hits :
         LET content == get_page_content(hit.page)
             fetched == ~TargetReached(se_results, se_max)
         IN /\ se_consumed' = se_consumed + 1
            /\ se_absent' = IF fetched /\ hit.page.kind # "text"
                            THEN se_absent + 1 ELSE se_absent
            /\ se_dups' = IF fetched /\ hit.page.kind = "text"
                             /\ IsDuplicate(se_results, hit.url)
                          THEN se_dups + 1 ELSE se_dups
            /\ IF ~fetched
               THEN /\ se_pc' = "returned"
                    /\ UNCHANGED se_results
               ELSE IF content.kind = "raised"
               THEN /\ se_pc' = "raised"
                    /\ UNCHANGED se_results
               ELSE /\ se_pc' = "loop"
                    /\ se_results' = LoopBody(se_results, hit, content)
    /\ UNCHANGED <<se_max, se_requested, se_exhausted>>
    /\ UNCHANGED otherThanSe

\* The stream has no further hit: the for loop ends and results is returned.
SeStreamEnd ==
    /\ se_pc = "loop"
    /\ se_pc' = "returned"
    /\ se_exhausted' = TRUE
    /\ UNCHANGED <<se_max, se_requested, se_results, se_consumed, se_absent, se_dups>>
    /\ UNCHANGED otherThanSe

NextCollect == SeNextHit \/ SeStreamEnd

(* -------------- store_documents_in_collection, stepwise --------------- *)
NotCalled == [called |-> FALSE, ids |-> <<>>]
Pending == [kind |-> "pending"]

\* No call of store_documents_in_collection is in progress.
SdIdle ==
    /\ sd_exists = TRUE
    /\ sd_n = 0
    /\ sd_seen = <<>>
    /\ sd_before = {}
    /\ sd_st = [StoreBegin({}) EXCEPT !.exit = "return"]
    /\ sd_hook = NotCalled
    /\ sd_ret = Pending

\* store_documents_in_collection is entered with len(docs) documents on a
\* vector store that has the named collection or not.
SdInit ==
    /\ sd_exists \in BOOLEAN
    /\ sd_n \in 0..MaxDocs
    /\ sd_seen = <<>>
    /\ sd_before \in {{}, {StalePoint}}
    /\ sd_st = StoreBegin(sd_before)
    /\ sd_hook = NotCalled
    /\ sd_ret = Pending

\* One iteration of the for loop; the insert hook may have rewritten the
\* document in any way.
SdIterate ==
    /\ sd_st.exit = "running"
    /\ Len(sd_seen) < sd_n
    /\ \E doc \in DocKinds :
         LET st == StoreStep(sd_st, doc, Len(sd_seen) + 1, sd_exists, 0, LoneInfo)
         IN /\ sd_seen' = Append(sd_seen, doc)
            /\ sd_st' = st
            /\ sd_ret' = IF st.exit = "return" THEN NoneValue
                         ELSE IF st.exit = "raise" THEN Raised
                         ELSE sd_ret
    /\ UNCHANGED <<sd_exists, sd_n, sd_before, sd_hook>>
    /\ UNCHANGED otherThanSd

\* The loop is over: the after hook gets stored_points, the client is
\* notified, and the function ends without a return statement.
SdFinish ==
    /\ sd_st.exit = "running"
    /\ Len(sd_seen) = sd_n
    /\ sd_hook' = [called |-> TRUE, ids |-> sd_st.stored_points]
    /\ sd_st' = [sd_st EXCEPT !.exit = "return"]
    /\ sd_ret' = NoneValue
    /\ UNCHANGED <<sd_exists, sd_n, sd_seen, sd_before>>
    /\ UNCHANGED otherThanSd

NextIngest == SdIterate \/ SdFinish

(* ---------------------- search_with_google ---------------------------- *)
\* "failed": an error of the fetcher, the embedder or the generator ended the
\* round; "failed_index": an index error in the citation loop did.
Resting == {"idle", "done", "failed", "failed_index"}

NoVectors == [n \in {} |-> {}]

\* The local variables of a call that is not running: they exist from the
\* call's entry to its return or to the error that ends it.
NoFrame ==
    [max_num_search |-> search_max_results_default,
     results |-> <<>>,
     ingested_count |-> 0,       \* results handed to store_documents_in_collection
     deleted |-> 0,              \* len(point_ids) in empty_collection
     response_chunks |-> <<>>,
     response_chunks_without_overlap |-> <<>>,
     new_response |-> <<>>,      \* one block per answer chunk handled
     mems |-> <<>>,              \* the neighbours of the last lookup
     lookups |-> 0]              \* embed_query / recall calls made

\* Hit streams and chunkings tried inside a round.
RoundPages == {[kind |-> "fetch_raises"], [kind |-> "text", len |-> 1]}
RoundHits == [url : 1..MaxRoundUrl, page : RoundPages]
RECURSIVE SeqsUpTo(_, _)
SeqsUpTo(S, n) ==
    IF n = 0 THEN {<<>>}
    ELSE LET shorter == SeqsUpTo(S, n - 1)
         IN shorter \cup {Append(q, x) : q \in {r \in shorter : Len(r) = n - 1}, x \in S}

Streams == SeqsUpTo(RoundHits, MaxStream)
DocLists == SeqsUpTo({"empty", "text"}, MaxRoundDocs) \cup {<<"embed_raises">>}

\* No round has run yet: the plugin has created no collection.
RdInit ==
    /\ vectors = NoVectors
    /\ rounds_started = 0
    /\ pc = [t \in Threads |-> "idle"]
    /\ rnd = [t \in Threads |-> 0]
    /\ frame = [t \in Threads |-> NoFrame]
    /\ ingested = [t \in Threads |-> {}]

\* The call on thread t ends, by a return or by an error, at `where`.
Leave(t, where) ==
    /\ pc' = [pc EXCEPT ![t] = where]
    /\ frame' = [frame EXCEPT ![t] = NoFrame]
    /\ ingested' = [ingested EXCEPT ![t] = {}]

\* Lines 258-265: the settings are loaded and the search is run.
Begin(t) ==
    /\ pc[t] \in Resting
    /\ rounds_started < MaxRounds
    /\ rounds_started' = rounds_started + 1
    /\ rnd' = [rnd EXCEPT ![t] = rounds_started + 1]
    /\ \E k \in 1..MaxSetting, stream \in Streams :
         LET found == search_engine_google(stream, k)
         IN IF found.error
            THEN Leave(t, "failed")
            ELSE /\ pc' = [pc EXCEPT ![t] = "ensure"]
                 /\ frame' = [frame EXCEPT ![t] =
                       [NoFrame EXCEPT !.max_num_search = k, !.results = found.results]]
                 /\ ingested' = [ingested EXCEPT ![t] = {}]
    /\ UNCHANGED vectors
    /\ UNCHANGED otherThanRd

\* A round begins while no other round is in progress.
StartAlone(t) ==
    /\ \A u \in Threads \ {t} : pc[u] \in Resting
    /\ Begin(t)

\* A round begins whatever the other thread is doing.
Start(t) ==
    /\ pc[t] \in Resting
    /\ Begin(t)

\* Lines 270-273: the collection is created on first use.
Ensure(t) ==
    /\ pc[t] = "ensure"
    /\ IF hasattr(vectors, search_collection_name)
       THEN UNCHANGED vectors
       ELSE \E found \in {{}, {StalePoint}} :
              vectors' = create_collection(vectors, search_collection_name, found)
    /\ pc' = [pc EXCEPT ![t] = "empty"]
    /\ UNCHANGED <<rounds_started, rnd, frame, ingested>>
    /\ UNCHANGED otherThanRd

\* Line 276: empty_collection(cat, "search").
Empty(t) ==
    /\ pc[t] = "empty"
    /\ vectors' = [vectors EXCEPT ![search_collection_name] = empty_collection(@)]
    /\ frame' = [frame EXCEPT ![t].deleted =
                    Cardinality(get_all_points(vectors[search_collection_name]))]
    /\ pc' = [pc EXCEPT ![t] = "ingest"]
    /\ UNCHANGED <<rounds_started, rnd, ingested>>
    /\ UNCHANGED otherThanRd

\* Lines 278-288, one iteration: the content of the next result is chunked
\* and the chunks are stored; an embedder error ends the round.
Ingest(t) ==
    /\ pc[t] = "ingest"
    /\ frame[t].ingested_count < Len(frame[t].results)
    /\ \E docs \in DocLists :
         LET info == frame[t].results[frame[t].ingested_count + 1]
             exists == hasattr(vectors, search_collection_name)
             before == IF exists THEN vectors[search_collection_name] ELSE {}
             st == store_documents_in_collection(before, docs, exists, rnd[t], info)
         IN /\ vectors' = IF exists
                          THEN [vectors EXCEPT ![search_collection_name] = st.points]
                          ELSE vectors
            /\ IF st.exit = "raise"
               THEN Leave(t, "failed")
               ELSE /\ ingested' = [ingested EXCEPT ![t] = @ \cup (st.points \ before)]
                    /\ frame' = [frame EXCEPT ![t].ingested_count = @ + 1]
                    /\ UNCHANGED pc
    /\ UNCHANGED <<rounds_started, rnd>>
    /\ UNCHANGED otherThanRd

\* Lines 290-304: the prompt is built, the generator is called once and its
\* answer is chunked twice; a generator error ends the round.
Generate(t) ==
    /\ pc[t] = "ingest"
    /\ frame[t].ingested_count = Len(frame[t].results)
    /\ \E ok \in BOOLEAN, a \in 0..MaxRoundChunks, b \in 0..MaxRoundChunks :
         IF ok
         THEN /\ frame' = [frame EXCEPT
                             ![t].response_chunks = Chunks("overlap", a),
                             ![t].response_chunks_without_overlap = Chunks("plain", b)]
              /\ pc' = [pc EXCEPT ![t] = "cite"]
              /\ UNCHANGED ingested
         ELSE Leave(t, "failed")
    /\ UNCHANGED <<vectors, rounds_started, rnd>>
    /\ UNCHANGED otherThanRd

\* Lines 307-327, one iteration: the next pair of chunks is taken, the
\* overlap chunk is embedded, its neighbours are recalled and cited.
Cite(t) ==
    /\ pc[t] = "cite"
    /\ LET pairs == Zip(frame[t].response_chunks,
                        frame[t].response_chunks_without_overlap)
           n == Len(frame[t].new_response) + 1
       IN /\ n <= Len(pairs)
          /\ IF pairs[n][2] = MissingChunk
             THEN Leave(t, "failed_index")
             ELSE \E m \in recall_memories_from_embedding(
                               vectors[search_collection_name],
                               frame[t].max_num_search) :
                    /\ frame' = [frame EXCEPT
                          ![t].mems = m,
                          ![t].lookups = @ + 1,
                          ![t].new_response =
                              Append(@, [doc |-> pairs[n][1], chunk |-> pairs[n][2],
                                         citations |-> ChunkCitations(m)])]
                    /\ UNCHANGED <<pc, ingested>>
    /\ UNCHANGED <<vectors, rounds_started, rnd>>
    /\ UNCHANGED otherThanRd

\* Lines 329-335: the references are appended and the answer is returned.
Finish(t) ==
    /\ pc[t] = "cite"
    /\ Len(frame[t].new_response) =
          Len(Zip(frame[t].response_chunks, frame[t].response_chunks_without_overlap))
    /\ Leave(t, "done")
    /\ UNCHANGED <<vectors, rounds_started, rnd>>
    /\ UNCHANGED otherThanRd

NextSeq ==
    \E t \in Threads :
        StartAlone(t) \/ Ensure(t) \/ Empty(t) \/ Ingest(t) \/ Generate(t)
           \/ Cite(t) \/ Finish(t)

\* The citation loop on its own (lines 303-335): thread t1 has ingested and
\* generated, the answer has been chunked twice.
SynthUniverse ==
    {add_point(1, [url |-> u, title |-> TitleOf(u), position |-> u], d) :
        u \in 1..MaxSynthUrl, d \in 1..2}

SynthInit ==
    /\ rounds_started = 1
    /\ pc = [t \in Threads |-> IF t = "t1" THEN "cite" ELSE "idle"]
    /\ rnd = [t \in Threads |-> IF t = "t1" THEN 1 ELSE 0]
    /\ \E points \in {c \in SUBSET SynthUniverse : Cardinality(c) <= MaxSynthPoints} :
         /\ vectors = create_collection(NoVectors, search_collection_name, points)
         /\ ingested = [t \in Threads |-> IF t = "t1" THEN points ELSE {}]
    /\ \E k \in 1..MaxNeighbours, a \in 0..MaxAnswerChunks, b \in 0..MaxAnswerChunks :
         frame = [t \in Threads |->
                    IF t = "t1"
                    THEN [NoFrame EXCEPT
                            !.max_num_search = k,
                            !.response_chunks = Chunks("overlap", a),
                            !.response_chunks_without_overlap = Chunks("plain", b)]
                    ELSE NoFrame]

NextSynth == \E t \in Threads : Cite(t) \/ Finish(t)

NextConc ==
    \E t \in Threads :
        Start(t) \/ Ensure(t) \/ Empty(t) \/ Ingest(t) \/ Generate(t)
           \/ Cite(t) \/ Finish(t)

(* --------------------------- specifications --------------------------- *)
InitCollect == SeInit /\ SdIdle /\ RdInit

SpecCollect == InitCollect /\ [][NextCollect]_vars

InitIngest == SdInit /\ SeIdle /\ RdInit

SpecIngest == InitIngest /\ [][NextIngest]_vars

InitRounds == RdInit /\ SeIdle /\ SdIdle

SpecSeq == InitRounds /\ [][NextSeq]_vars

SpecConc == InitRounds /\ [][NextConc]_vars

InitSynth == SynthInit /\ SeIdle /\ SdIdle

SpecSynth == InitSynth /\ [][NextSynth]_vars

(* -------------------- claims on the collector ------------------------- *)

\* C1: search_engine_google never holds more than max_num_results results,
\* and when it has returned fewer than max_num_results the hit stream was
\* consumed to its end.
C1_AtMostTargetFewerOnlyIfExhausted ==
    /\ Len(se_results) <= se_max
    /\ (se_pc = "returned" /\ Len(se_results) < se_max) => se_exhausted

\* Scenario 1: target 3 reached on the fourth hit after one failed fetch;
\* the fifth hit triggers the break, the stream is not exhausted.
C1_Witness ==
    /\ se_pc = "returned"
    /\ se_max = 3
    /\ Len(se_results) = 3
    /\ se_absent = 1
    /\ se_consumed = 5
    /\ ~se_exhausted

\* C2: at every step of the loop and on return, no two results share a URL
\* and the i-th result carries position i.
C2_UniqueUrlsContiguousPositions ==
    /\ \A i, j \in 1..Len(se_results) :
         i # j => se_results[i].url # se_results[j].url
    /\ \A i \in 1..Len(se_results) : se_results[i].position = i

\* Three results collected with a failed fetch and a duplicate in between.
C2_Witness ==
    /\ Len(se_results) = 3
    /\ se_absent >= 1
    /\ se_dups >= 1

\* C7: get_page_content never propagates an error; a hit whose fetch or
\* extraction fails is left out of the results and the loop goes on with the
\* next hit.
C7_FetchFailureNeverSurfaces ==
    [][ /\ se_pc' # "raised"
        /\ (se_absent' = se_absent + 1) =>
              (se_results' = se_results /\ se_pc' = "loop")
      ]_vars

\* A fetch failed, the loop went on and kept a later hit.
C7_Witness ==
    /\ se_absent >= 1
    /\ Len(se_results) >= 1
    /\ se_results[Len(se_results)].position + se_absent + se_dups = se_consumed
    /\ se_pc = "loop"

\* C9: the number of raw hits requested exceeds max_num_results.
C9_RequestsMoreThanTarget == se_requested > se_max

(* -------------------- claims on the ingestor -------------------------- *)
\* Identifiers of the documents seen so far that were non-empty texts, in
\* document order.
RECURSIVE ExpectedIds(_, _)
ExpectedIds(seen, d) ==
    IF d > Len(seen) THEN <<>>
    ELSE IF seen[d] = "text"
         THEN <<(<<0, 0, d>>)>> \o ExpectedIds(seen, d + 1)
         ELSE ExpectedIds(seen, d + 1)

\* C4 as stated: the call returns the identifiers of the points it stored.
C4_ReturnsStoredIds ==
    sd_hook.called => sd_ret = [kind |-> "list", ids |-> sd_st.stored_points]

\* C4 amended: the call returns None; when it runs to its end, the m
\* documents that are non-empty after the insert hook have each added one
\* point, and stored_points, handed to the after hook, holds their m
\* identifiers in insertion order.
C4_StoresNonEmptyReturnsNone ==
    sd_hook.called =>
        /\ sd_ret = NoneValue
        /\ sd_hook.ids = ExpectedIds(sd_seen, 1)
        /\ sd_before \subseteq sd_st.points
        /\ {p.id : p \in sd_st.points \ sd_before} =
              {sd_hook.ids[i] : i \in 1..Len(sd_hook.ids)}
        /\ Cardinality(sd_st.points \ sd_before) = Len(sd_hook.ids)
        /\ Len(sd_hook.ids) = Cardinality({d \in 1..Len(sd_seen) : sd_seen[d] = "text"})

\* Scenario 2: four chunks, the second empty after the hook: three stored.
C4_Witness ==
    /\ sd_hook.called
    /\ sd_seen = <<"text", "empty", "text", "text">>
    /\ Len(sd_hook.ids) = 3
    /\ Cardinality(sd_st.points \ sd_before) = 3

\* C5: when the collection is missing, the call inserts nothing and ends by
\* raising an error to its caller.
C5_MissingCollectionRaises ==
    (sd_st.missing /\ sd_st.exit # "running") =>
        (sd_st.points = sd_before /\ sd_st.exit = "raise")

(* -------------------- claims on the rounds ---------------------------- *)
SearchPoints == vectors[search_collection_name]

\* C3: with rounds run one after another, the collection is empty when the
\* first store_documents_in_collection call of a round begins; from then
\* until the round returns it holds exactly the points the round ingested,
\* and every neighbour a citation lookup of the round returned is one of
\* them.
C3_ClearThenFill ==
    \A t \in Threads :
        /\ (pc[t] = "ingest" /\ frame[t].ingested_count = 0) => SearchPoints = {}
        /\ pc[t] \in {"ingest", "cite"} => SearchPoints = ingested[t]
        /\ pc[t] = "cite" =>
              \A i \in 1..Len(frame[t].mems) : frame[t].mems[i] \in ingested[t]

\* The second round is about to return: its empty_collection deleted points
\* left behind, it ingested points of its own and its lookups returned
\* neighbours.
C3_Witness ==
    \E t \in Threads :
        /\ pc[t] = "cite"
        /\ rnd[t] = 2
        /\ frame[t].deleted >= 1
        /\ ingested[t] # {}
        /\ SearchPoints = ingested[t]
        /\ frame[t].mems # <<>>
        /\ frame[t].lookups = Len(frame[t].response_chunks)

\* A round in progress whose collection is not what it ingested, or whose
\* last lookup returned a point it did not ingest.
Disturbed(t) ==
    /\ pc[t] \in {"ingest", "cite"}
    /\ \/ SearchPoints # ingested[t]
       \/ \E i \in 1..Len(frame[t].mems) : frame[t].mems[i] \notin ingested[t]

\* C10: with rounds interleaved nothing keeps a round's clear, fill and
\* lookups apart from another round's: a round in progress is disturbed only
\* when another thread has run a round on the same "search" collection, and
\* such states are reachable (C10_Witness).
C10_DisturbedOnlyByAnotherRound ==
    \A t \in Threads :
        Disturbed(t) => \E u \in Threads \ {t} : rnd[u] # 0

\* A round at its citation loop has lost every point it ingested to the
\* empty_collection of the other, later round, and its lookup returned a
\* point of that round.
C10_Witness ==
    \E t \in Threads :
        /\ pc[t] = "cite"
        /\ ingested[t] # {}
        /\ ingested[t] \cap SearchPoints = {}
        /\ \E i \in 1..Len(frame[t].mems) : frame[t].mems[i] \notin ingested[t]
        /\ \E u \in Threads \ {t} :
              /\ rnd[u] > rnd[t]
              /\ pc[u] \in {"ingest", "cite"}
              /\ frame[u].deleted >= 1
              /\ \E i \in 1..Len(frame[t].mems) : frame[t].mems[i] \in ingested[u]

(* -------------------- claims on the citation loop --------------------- *)
\* Index of the first neighbour carrying the link.
FirstIndex(m, link) ==
    CHOOSE j \in 1..Len(m) :
        m[j].link = link /\ \A h \in 1..(j - 1) : m[h].link # link

\* C6: the citation list of an answer chunk holds every distinct link of the
\* chunk's neighbours exactly once, in the order of first occurrence, each
\* with the title of that first neighbour; neighbours of equal title and
\* different links are cited separately.
C6_CitationsDistinctFirstSeenOrder ==
    \A t \in Threads :
        frame[t].lookups > 0 =>
            LET c == frame[t].new_response[Len(frame[t].new_response)].citations
                m == frame[t].mems
            IN /\ \A i, j \in 1..Len(c) : i # j => c[i].link # c[j].link
               /\ {c[i].link : i \in 1..Len(c)} = {m[j].link : j \in 1..Len(m)}
               /\ \A i \in 1..Len(c) : c[i] = SearchMetadata(m[FirstIndex(m, c[i].link)])
               /\ \A i, j \in 1..Len(c) :
                     i < j => FirstIndex(m, c[i].link) < FirstIndex(m, c[j].link)

\* Three neighbours: the first and the third share a link, the second has
\* another link and the same title; two citations result.
C6_Witness ==
    \E t \in Threads :
        /\ frame[t].lookups > 0
        /\ Len(frame[t].mems) = 3
        /\ frame[t].mems[1].link = frame[t].mems[3].link
        /\ frame[t].mems[2].link # frame[t].mems[1].link
        /\ frame[t].mems[2].title = frame[t].mems[1].title
        /\ Len(frame[t].new_response[Len(frame[t].new_response)].citations) = 2

\* What holds of the citation loop of thread t while it runs.
PairedSoFar(t) ==
    LET a == Len(frame[t].response_chunks)
        b == Len(frame[t].response_chunks_without_overlap)
        n == Len(frame[t].new_response)
    IN /\ pc[t] # "failed_index"
       /\ frame[t].lookups = n
       /\ n <= Min(a, b)
       /\ \A i \in 1..n :
             /\ frame[t].new_response[i].doc = frame[t].response_chunks[i]
             /\ frame[t].new_response[i].chunk =
                   frame[t].response_chunks_without_overlap[i]

\* C8: the citation loop pairs the k-th overlap chunk with the k-th
\* zero-overlap chunk, makes one lookup per pair, never fails on a length
\* mismatch, and returns the answer when exactly min(a, b) pairs are handled.
C8_ProcessesMinPairedChunks ==
    [][ \A t \in Threads :
          /\ PairedSoFar(t)'
          /\ (pc[t] = "cite" /\ pc'[t] = "done") =>
                /\ frame[t].lookups = Min(Len(frame[t].response_chunks),
                                          Len(frame[t].response_chunks_without_overlap))
                /\ Len(frame[t].new_response) = frame[t].lookups
      ]_vars

\* Two overlap chunks against three zero-overlap chunks: two pairs are
\* handled, the loop is over and the answer is about to be returned.
C8_Witness ==
    \E t \in Threads :
        /\ pc[t] = "cite"
        /\ Len(frame[t].response_chunks) = 2
        /\ Len(frame[t].response_chunks_without_overlap) = 3
        /\ frame[t].lookups = 2
        /\ Len(frame[t].new_response) = 2

=============================================================================
